---- MODULE Spec2Model ----
(***************************************************************************)
(* Research aggregation of another-doctor-app: the process-wide            *)
(* ResearchAggregationService, its five source adapters with their HTTP    *)
(* sessions, and the endpoint that serves aggregate-search requests.       *)
(*                                                                         *)
(* Strings are sequences of one-character strings, so that lower-casing,   *)
(* whitespace splitting and the substring test are computed.  Relevance    *)
(* scores are counted in half points (2.0 is 4, 1.0 is 2, 0.5 is 1).       *)
(* Wall-clock time (execution_time_ms) is not modelled.                    *)
(*                                                                         *)
(* Further down: one call of _rank_results on a fetched list (SpecRank),   *)
(* and MatchingService.find_matches with its scoring functions             *)
(* (SpecMatch), one adapter search with its parsing (SpecAdapter), the     *)
(* LocalTaskEmulator (SpecEmulator) and HTTPClient.request (SpecHttp).     *)
(* Each specification leaves the other parts idle.                         *)
(***************************************************************************)
EXTENDS Integers, Sequences, FiniteSets, TLC

VARIABLES session, pc, req, units, envelope, served, ranker, matcher, scorer,
          adapter, emulator, http

\* one call of _rank_results, of find_matches, of the scoring functions, of
\* an adapter's search, the local task emulator, one HTTPClient.request
call_vars == <<ranker, matcher, scorer, adapter, emulator, http>>

vars == <<session, pc, req, units, envelope, served, ranker, matcher, scorer,
          adapter, emulator, http>>

----------------------------------------------------------------------------
(* Bounds of the model *)

\* longest include_sources list a request of Spec supplies
MaxIncludeLen == 2
\* longest include_sources list a request of SpecOverlap supplies
MaxOverlapLen == 1
\* number of requests the endpoint serves in one behaviour
MaxServed == 2

\* the request handlers that may be active at the same time
Slots == {1, 2}

----------------------------------------------------------------------------
(* The five adapters of ResearchAggregationService.__init__, in dict order *)

ApiKeys == <<"pubmed", "openalex", "clinical_trials", "nih_reporter", "crossref">>

Known == {ApiKeys[i] : i \in 1..Len(ApiKeys)}

\* a name a caller may pass that is no key of self.apis
UnknownSource == "scopus"

\* Python's None for a string field, a year and the include_sources argument
NoneStr == <<"<None>">>
NoneYear == 0 - 1
NoneInclude == <<"<None>">>

----------------------------------------------------------------------------
(* Strings *)

UpperChars == <<"A","B","C","D","E","F","G","H","I","J","K","L","M",
                "N","O","P","Q","R","S","T","U","V","W","X","Y","Z">>
LowerChars == <<"a","b","c","d","e","f","g","h","i","j","k","l","m",
                "n","o","p","q","r","s","t","u","v","w","x","y","z">>

LowerChar(c) ==
    IF \E i \in 1..Len(UpperChars) : UpperChars[i] = c
    THEN LowerChars[CHOOSE i \in 1..Len(UpperChars) : UpperChars[i] = c]
    ELSE c

\* str.lower()
Lower(s) == [i \in 1..Len(s) |-> LowerChar(s[i])]

IsSpace(c) == c = " "

\* str.split(): the maximal runs of non-whitespace characters, in order
RECURSIVE SplitFrom(_, _, _)
SplitFrom(s, i, cur) ==
    IF i > Len(s)
    THEN IF cur = <<>> THEN <<>> ELSE <<cur>>
    ELSE IF IsSpace(s[i])
         THEN (IF cur = <<>> THEN <<>> ELSE <<cur>>) \o SplitFrom(s, i + 1, <<>>)
         ELSE SplitFrom(s, i + 1, Append(cur, s[i]))

Split(s) == SplitFrom(s, 1, <<>>)

\* `sub in s` on strings
Contains(sub, s) ==
    \E i \in 0..(Len(s) - Len(sub)) : SubSeq(s, i + 1, i + Len(sub)) = sub

----------------------------------------------------------------------------
(* What the remote sources answer: processed items as the adapters build   *)
(* them.  A null title or abstract in the remote payload reaches the item  *)
(* as None (dict.get returns the stored None, not the default).            *)

Queries == { <<"h","e","a","r","t">>,
             <<"A","r","t"," "," ","c","a","r","e">> }

TitleHeartCare == <<"H","e","a","r","t"," ","c","a","r","e">>
TitleTrial == <<"T","r","i","a","l">>
AbstractArt == <<"a","r","t">>

Item1 == [source_key |-> "k1", title |-> TitleHeartCare, abstract |-> <<>>,
          year |-> 2021, citation_count |-> 150]
Item2 == [source_key |-> "k2", title |-> TitleTrial, abstract |-> AbstractArt,
          year |-> 2016, citation_count |-> 11]
\* PubMed guards the title (`.text or ""`) but not the abstract text; the
\* other adapters pass a null title through
ItemNull(s) ==
    IF s = "pubmed"
    THEN [source_key |-> "k3", title |-> TitleTrial, abstract |-> NoneStr,
          year |-> NoneYear, citation_count |-> 0]
    ELSE [source_key |-> "k3", title |-> NoneStr, abstract |-> <<>>,
          year |-> NoneYear, citation_count |-> 0]

\* the lists of items a successful search of source s may produce; nothing
\* in an adapter removes a record the remote answer holds twice
Payloads(s) == { <<>>, <<Item2, Item1>>, <<Item1, ItemNull(s)>>, <<Item1, Item1>> }

\* an item no text operation of the ranker can process
Malformed(item) == item.title = NoneStr \/ item.abstract = NoneStr

----------------------------------------------------------------------------
(* _convert_to_research_result: the canonical record.  Of additional_data  *)
(* only citation_count (OpenAlex) is kept: it is the one entry the ranker  *)
(* reads.                                                                  *)

ConvertToResearchResult(item, source) ==
    [source |-> source,
     source_key |-> item.source_key,
     title |-> item.title,
     abstract |-> item.abstract,
     year |-> item.year,
     relevance_score |-> 0,
     citation_count |-> IF source = "openalex" THEN item.citation_count ELSE 0]

ConvertAll(items, source) ==
    [i \in 1..Len(items) |-> ConvertToResearchResult(items[i], source)]

----------------------------------------------------------------------------
(* _rank_results *)

\* thresholds of the recency boost
RecentYear == 2020
OlderYear == 2015
\* thresholds of the OpenAlex citation bonus
CitationsHigh == 100
CitationsSome == 10

\* points (in halves) for the terms of the query found in text, each term
\* of the list counted once per occurrence in the list
RECURSIVE TermPoints(_, _, _)
TermPoints(terms, text, each) ==
    IF terms = <<>> THEN 0
    ELSE (IF Contains(Head(terms), text) THEN each ELSE 0)
         + TermPoints(Tail(terms), text, each)

\* `result.year and ...`: None and 0 are falsy
YearTruthy(y) == y # NoneYear /\ y # 0

RecencyPoints(y) ==
    IF YearTruthy(y) /\ y >= RecentYear THEN 2
    ELSE IF YearTruthy(y) /\ y >= OlderYear THEN 1
    ELSE 0

CitationPoints(result) ==
    IF result.source = "openalex"
    THEN IF result.citation_count > CitationsHigh THEN 4
         ELSE IF result.citation_count > CitationsSome THEN 2
         ELSE 0
    ELSE 0

\* title.lower() / abstract.lower() raise AttributeError on None
ScoreRaises(result) == result.title = NoneStr \/ result.abstract = NoneStr

\* a score that compares the terms with the title as written
RelevanceScore_CaseSensitive(result, query_terms) ==
    TermPoints(query_terms, result.title, 4)
    + TermPoints(query_terms, Lower(result.abstract), 2)
    + RecencyPoints(result.year)
    + CitationPoints(result)

RelevanceScore(result, query_terms) ==
    TermPoints(query_terms, Lower(result.title), 4)
    + TermPoints(query_terms, Lower(result.abstract), 2)
    + RecencyPoints(result.year)
    + CitationPoints(result)

\* key=lambda x: (x.relevance_score, x.year or 0)
SortKey(x) == <<x.relevance_score, IF YearTruthy(x.year) THEN x.year ELSE 0>>

KeyLess(a, b) == a[1] < b[1] \/ (a[1] = b[1] /\ a[2] < b[2])

\* an unstable insertion: x goes before the elements whose key is equal
InsertDesc_Unstable(sorted, x) ==
    LET notgreater == {i \in 1..Len(sorted) : ~KeyLess(SortKey(x), SortKey(sorted[i]))}
    IN  IF notgreater = {} THEN Append(sorted, x)
        ELSE LET p == CHOOSE i \in notgreater : \A j \in notgreater : i <= j
             IN  SubSeq(sorted, 1, p - 1) \o <<x>> \o SubSeq(sorted, p, Len(sorted))

\* sorted(..., reverse=True) is stable: x goes before the first element
\* whose key is smaller, after every element whose key is equal
InsertDesc(sorted, x) ==
    LET smaller == {i \in 1..Len(sorted) : KeyLess(SortKey(sorted[i]), SortKey(x))}
    IN  IF smaller = {} THEN Append(sorted, x)
        ELSE LET p == CHOOSE i \in smaller : \A j \in smaller : i <= j
             IN  SubSeq(sorted, 1, p - 1) \o <<x>> \o SubSeq(sorted, p, Len(sorted))

RECURSIVE SortedDesc(_)
SortedDesc(results) ==
    IF results = <<>> THEN <<>>
    ELSE InsertDesc(SortedDesc(SubSeq(results, 1, Len(results) - 1)),
                    results[Len(results)])

RankRaises(results) == \E i \in 1..Len(results) : ScoreRaises(results[i])

RankResults(results, query) ==
    LET query_terms == Split(Lower(query))
        scored == [i \in 1..Len(results) |->
                     [results[i] EXCEPT
                        !.relevance_score = RelevanceScore(results[i], query_terms)]]
    IN  SortedDesc(scored)

----------------------------------------------------------------------------
(* search_all_sources, the part before the fan-out *)

IsNoneInclude(inc) == inc = NoneInclude

\* `include_sources if include_sources else list(self.apis.keys())`: None
\* and the empty list are both falsy
SourcesToQuery(inc) ==
    IF IsNoneInclude(inc) \/ inc = <<>> THEN ApiKeys ELSE inc

InApis(source) == source \in Known

\* one coroutine per listed name that is a key of self.apis, in list order
TaskSources(sources_to_query) == SelectSeq(sources_to_query, InApis)

----------------------------------------------------------------------------
(* A unit of work: one _search_source task.  phase is where the coroutine  *)
(* is suspended: on its HTTP request ("esearch" and "efetch" for PubMed,   *)
(* "request" for the others), or finished ("done"), or cancelled.  failed  *)
(* says the adapter's remote request raised; value is the list the task    *)
(* holds as its result.                                                    *)

FirstPhase(source) == IF source = "pubmed" THEN "esearch" ELSE "request"

InFlight(u) == u.phase \in {"esearch", "efetch", "request"}

\* what a remote request ends in: an exception inside the adapter's try
\* (transport error, timeout, non-success status, unparsable body) or a
\* parsed answer
Exc == [kind |-> "exc", items |-> <<>>]
Ok(items) == [kind |-> "ok", items |-> items]

SearchOutcomes(source) == {Exc} \cup {Ok(p) : p \in Payloads(source)}

\* esearch answers with a list of PMIDs, possibly empty
EsearchOutcomes == {Exc, Ok(<<>>), Ok(<<"k1", "k2", "k3">>)}

\* the adapters' `except Exception: return []`
AdapterResult(outcome) == IF outcome.kind = "exc" THEN <<>> ELSE outcome.items

Finished(source, outcome) ==
    [source |-> source, phase |-> "done", failed |-> (outcome.kind = "exc"),
     value |-> AdapterResult(outcome)]

\* the coroutine runs up to its first suspension: on a closed client
\* session.get raises at once, inside the adapter's try
StartUnit(source, sess) ==
    IF sess[source] = "open"
    THEN [source |-> source, phase |-> FirstPhase(source), failed |-> FALSE,
          value |-> <<>>]
    ELSE Finished(source, Exc)

\* ExternalAPIService.__aexit__: session.aclose()
CloseSession(sess, source) == [sess EXCEPT ![source] = "closed"]

\* ResearchAggregationService.__aexit__: every adapter's __aexit__
CloseAll(sess) == [s \in Known |-> "closed"]

\* children created as detached tasks, which a cancelled parent leaves running
AbortUnit_Detached(u) == u

\* asyncio.TaskGroup aborting a child: CancelledError is no Exception, so
\* neither the adapter nor _search_source catches it
AbortUnit(u) == IF InFlight(u) THEN [u EXCEPT !.phase = "cancelled"] ELSE u

\* a wait that returns on the first finished child
JoinReady_FirstCompleted(us) == us = <<>> \/ \E i \in 1..Len(us) : us[i].phase = "done"

\* asyncio.TaskGroup.__aexit__ returns when every child task has finished
JoinReady(us) == \A i \in 1..Len(us) : us[i].phase = "done"

----------------------------------------------------------------------------
(* search_all_sources, the part after the join *)

\* _search_source ends in `except Exception: return []`, and the adapters
\* catch every Exception themselves: task_result.result() never raises
TaskRaised(u) == FALSE

\* task_results[source] = tg.create_task(task): a dict, so a source listed
\* twice keeps the task created last
LastUnitOf(us, source) ==
    CHOOSE i \in 1..Len(us) :
        /\ us[i].source = source
        /\ \A j \in 1..Len(us) : us[j].source = source => j <= i

SourcesOf(us) == {us[i].source : i \in 1..Len(us)}

\* results[source]: the collected list, [] for a task that raised
Collected(us) ==
    [s \in SourcesOf(us) |->
        LET u == us[LastUnitOf(us, s)]
        IN  IF TaskRaised(u) THEN <<>> ELSE u.value]

\* errors: "{source}: {message}" for every collected task that raised, in
\* the dict's order (first creation of each source)
RECURSIVE ErrorsFrom(_, _, _)
ErrorsFrom(us, i, seen) ==
    IF i > Len(us) THEN <<>>
    ELSE IF us[i].source \in seen THEN ErrorsFrom(us, i + 1, seen)
    ELSE (IF TaskRaised(us[LastUnitOf(us, us[i].source)])
          THEN <<[source |-> us[i].source, message |-> "error"]>>
          ELSE <<>>)
         \o ErrorsFrom(us, i + 1, seen \cup {us[i].source})

Errors(us) == ErrorsFrom(us, 1, {})

\* `if 'x' in results: bucket.extend(convert(item, 'x') for item in results['x'])`
Extend(results, source) ==
    IF source \in DOMAIN results THEN ConvertAll(results[source], source) ELSE <<>>

Publications(results) ==
    Extend(results, "pubmed") \o Extend(results, "openalex") \o Extend(results, "crossref")

\* the registry bucket filled from the grant registry's results
ClinicalTrials_FromGrants(results) == Extend(results, "nih_reporter")

ClinicalTrials(results) == Extend(results, "clinical_trials")

Grants(results) == Extend(results, "nih_reporter")

\* a total that forgets the grants bucket
TotalResults_NoGrants(publications, clinical_trials, grants) ==
    Len(publications) + Len(clinical_trials)

TotalResults(publications, clinical_trials, grants) ==
    Len(publications) + Len(clinical_trials) + Len(grants)

\* the first _rank_results call that meets a None title or abstract raises
\* AttributeError, which nothing in search_all_sources catches
ComposeRaises(us) ==
    LET results == Collected(us)
    IN  \/ RankRaises(Publications(results))
        \/ RankRaises(ClinicalTrials(results))
        \/ RankRaises(Grants(results))

AggregatedResults(request, us) ==
    LET results == Collected(us)
        publications == RankResults(Publications(results), request.query)
        clinical_trials == RankResults(ClinicalTrials(results), request.query)
        grants == RankResults(Grants(results), request.query)
    IN  [query |-> request.query,
         total_results |-> TotalResults(publications, clinical_trials, grants),
         sources_queried |-> SourcesToQuery(request.include_sources),
         publications |-> publications,
         clinical_trials |-> clinical_trials,
         grants |-> grants,
         errors |-> Errors(us)]

----------------------------------------------------------------------------
(* State.  session[s] is the httpx client of adapter s of the process-wide *)
(* research_aggregator; the other variables are per request handler.       *)

NoRequest == [query |-> <<>>, include_sources |-> NoneInclude]

NoEnvelope ==
    [query |-> <<>>, total_results |-> 0, sources_queried |-> <<>>,
     publications |-> <<>>, clinical_trials |-> <<>>, grants |-> <<>>,
     errors |-> <<>>]

Names == Known \cup {UnknownSource}

ListsOfLen(lo, hi) == UNION {[1..k -> Names] : k \in lo..hi}

\* include_sources of a request: omitted, or a list (empty, repeated and
\* unknown names included)
IncludeChoices == {NoneInclude} \cup ListsOfLen(0, MaxIncludeLen)

\* include_sources of the requests that overlap: non-empty lists
OverlapChoices == ListsOfLen(1, MaxOverlapLen)

Active == {r \in Slots : pc[r] # "idle"}

\* no call of the ranker, the matcher or the scoring functions is under way
NoCall == [pc |-> "idle"]

\* no adapter search, emulator or HTTP client call is under way
OthersIdle ==
    /\ adapter = NoCall
    /\ emulator = NoCall
    /\ http = NoCall

IdleAggregator ==
    /\ session = [s \in Known |-> "open"]
    /\ pc = [r \in Slots |-> "idle"]
    /\ req = [r \in Slots |-> NoRequest]
    /\ units = [r \in Slots |-> <<>>]
    /\ envelope = [r \in Slots |-> NoEnvelope]
    /\ served = 0

Init ==
    /\ IdleAggregator
    /\ ranker = NoCall
    /\ matcher = NoCall
    /\ scorer = NoCall
    /\ OthersIdle

\* the endpoint is called and enters `async with research_aggregator`
Enter(r, q, inc) ==
    /\ pc[r] = "idle"
    /\ served + Cardinality(Active) < MaxServed
    /\ pc' = [pc EXCEPT ![r] = "entered"]
    /\ req' = [req EXCEPT ![r] = [query |-> q, include_sources |-> inc]]
    /\ UNCHANGED <<session, units, envelope, served>>
    /\ UNCHANGED call_vars

\* search_all_sources up to the TaskGroup's wait: the tasks are created
\* and each runs to its first suspension, in creation order
Launch(r) ==
    /\ pc[r] = "entered"
    /\ LET ts == TaskSources(SourcesToQuery(req[r].include_sources))
       IN  units' = [units EXCEPT ![r] =
                        [i \in 1..Len(ts) |-> StartUnit(ts[i], session)]]
    /\ pc' = [pc EXCEPT ![r] = "running"]
    /\ UNCHANGED <<session, req, envelope, served>>
    /\ UNCHANGED call_vars

\* PubMed's esearch request ends; with PMIDs in hand the coroutine goes on
\* to efetch, otherwise fetch_publication_details returns [] and the
\* coroutine leaves `async with api`
EsearchResponds(r, i, o) ==
    /\ pc[r] = "running"
    /\ i \in 1..Len(units[r])
    /\ units[r][i].phase = "esearch"
    /\ LET s == units[r][i].source
       IN  IF o.kind = "ok" /\ o.items # <<>>
           THEN /\ units' = [units EXCEPT ![r][i] =
                               IF session[s] = "open"
                               THEN [@ EXCEPT !.phase = "efetch"]
                               ELSE Finished(s, Exc)]
                /\ session' = session
           ELSE /\ units' = [units EXCEPT ![r][i] = Finished(s, o)]
                /\ session' = CloseSession(session, s)
    /\ UNCHANGED <<pc, req, envelope, served>>
    /\ UNCHANGED call_vars

\* PubMed's efetch request ends and the coroutine leaves `async with api`
EfetchResponds(r, i, o) ==
    /\ pc[r] = "running"
    /\ i \in 1..Len(units[r])
    /\ units[r][i].phase = "efetch"
    /\ units' = [units EXCEPT ![r][i] = Finished(units[r][i].source, o)]
    /\ session' = CloseSession(session, units[r][i].source)
    /\ UNCHANGED <<pc, req, envelope, served>>
    /\ UNCHANGED call_vars

\* the request of one of the other four adapters ends and the coroutine
\* leaves `async with api`
SourceResponds(r, i, o) ==
    /\ pc[r] = "running"
    /\ i \in 1..Len(units[r])
    /\ units[r][i].phase = "request"
    /\ units' = [units EXCEPT ![r][i] = Finished(units[r][i].source, o)]
    /\ session' = CloseSession(session, units[r][i].source)
    /\ UNCHANGED <<pc, req, envelope, served>>
    /\ UNCHANGED call_vars

\* the handler's task is cancelled while it waits in the TaskGroup: the
\* group aborts its children, each leaves `async with api` on the way out,
\* and CancelledError propagates
RECURSIVE CloseAborted(_, _, _)
CloseAborted(sess, us, i) ==
    IF i > Len(us) THEN sess
    ELSE CloseAborted(IF InFlight(us[i]) THEN CloseSession(sess, us[i].source)
                      ELSE sess, us, i + 1)

Cancel(r) ==
    /\ pc[r] = "running"
    /\ units' = [units EXCEPT ![r] = [i \in 1..Len(@) |-> AbortUnit(@[i])]]
    /\ session' = CloseAborted(session, units[r], 1)
    /\ pc' = [pc EXCEPT ![r] = "cancelled"]
    /\ UNCHANGED <<req, envelope, served>>
    /\ UNCHANGED call_vars

\* the TaskGroup's wait ends; results are collected, bucketed and ranked,
\* and the envelope is returned, or the ranker's exception propagates
Join(r) ==
    /\ pc[r] = "running"
    /\ JoinReady(units[r])
    /\ IF ComposeRaises(units[r])
       THEN /\ pc' = [pc EXCEPT ![r] = "raised"]
            /\ envelope' = envelope
       ELSE /\ pc' = [pc EXCEPT ![r] = "returned"]
            /\ envelope' = [envelope EXCEPT ![r] = AggregatedResults(req[r], units[r])]
    /\ UNCHANGED <<session, req, units, served>>
    /\ UNCHANGED call_vars

\* the endpoint leaves `async with research_aggregator` (with the result,
\* the exception or the cancellation) and answers; the request's values
\* are discarded
Exit(r) ==
    /\ pc[r] \in {"returned", "raised", "cancelled"}
    /\ session' = CloseAll(session)
    /\ pc' = [pc EXCEPT ![r] = "idle"]
    /\ req' = [req EXCEPT ![r] = NoRequest]
    /\ units' = [units EXCEPT ![r] = <<>>]
    /\ envelope' = [envelope EXCEPT ![r] = NoEnvelope]
    /\ served' = served + 1
    /\ UNCHANGED call_vars

Step(r, choices) ==
    \/ \E q \in Queries, inc \in choices : Enter(r, q, inc)
    \/ Launch(r)
    \/ \E i \in 1..Len(units[r]), o \in EsearchOutcomes : EsearchResponds(r, i, o)
    \/ \E i \in 1..Len(units[r]), o \in SearchOutcomes("pubmed") : EfetchResponds(r, i, o)
    \/ \E i \in 1..Len(units[r]) :
          \E o \in SearchOutcomes(units[r][i].source) : SourceResponds(r, i, o)
    \/ Cancel(r)
    \/ Join(r)
    \/ Exit(r)

\* the endpoint serving one request at a time
Next == Step(1, IncludeChoices)

Spec == Init /\ [][Next]_vars

\* two handlers of the endpoint running at the same time
NextOverlap == \E r \in Slots : Step(r, OverlapChoices)

SpecOverlap == Init /\ [][NextOverlap]_vars

----------------------------------------------------------------------------
(* Vocabulary of the properties *)

Range(seq) == {seq[i] : i \in 1..Len(seq)}

Returned(r) == pc[r] = "returned"

Completed(r) == pc[r] \in {"returned", "raised"}

\* the sources of request r with a unit whose remote request raised or
\* whose payload holds a malformed (null-field) item
FailedSources(r) ==
    {units[r][i].source : i \in {j \in 1..Len(units[r]) :
        \/ units[r][j].failed
        \/ \E k \in 1..Len(units[r][j].value) : Malformed(units[r][j].value[k])}}

\* the sources of request r with a unit whose remote request raised
RaisedSources(r) ==
    {units[r][i].source : i \in {j \in 1..Len(units[r]) : units[r][j].failed}}

AllResults(env) == env.publications \o env.clinical_trials \o env.grants

\* what the envelope holds of source s, score aside, as a set
Contribution(env, s) ==
    {[AllResults(env)[i] EXCEPT !.relevance_score = 0] :
        i \in {j \in 1..Len(AllResults(env)) : AllResults(env)[j].source = s}}

\* what source s handed to the coordinator, converted, as a set
Handed(us, s) == Range(ConvertAll(Collected(us)[s], s))

\* the category each source feeds
CategoryOf(s) ==
    IF s \in {"pubmed", "openalex", "crossref"} THEN "publications"
    ELSE IF s = "clinical_trials" THEN "clinical_trials"
    ELSE "grants"

Bucket(env, category) ==
    IF category = "publications" THEN env.publications
    ELSE IF category = "clinical_trials" THEN env.clinical_trials
    ELSE env.grants

----------------------------------------------------------------------------
(* C1: per-source isolation.  Whenever units of a request have failed      *)
(* (exception, timeout or malformed payload), the call still returns an    *)
(* envelope, and every source outside the failed set contributes exactly   *)
(* the results it handed over.                                             *)
C1_PerSourceIsolation ==
    \A r \in Slots :
        (Completed(r) /\ FailedSources(r) # {}) =>
            /\ Returned(r)
            /\ \A s \in SourcesOf(units[r]) \ FailedSources(r) :
                  Contribution(envelope[r], s) = Handed(units[r], s)

(* C2: every source whose unit failed is named by an entry of errors and   *)
(* contributes zero results; one failing source gives one entry.           *)
C2_FailureRecorded ==
    \A r \in Slots :
        Returned(r) =>
            /\ \A s \in RaisedSources(r) :
                  /\ \E k \in 1..Len(envelope[r].errors) :
                        envelope[r].errors[k].source = s
                  /\ Contribution(envelope[r], s) = {}
            /\ Cardinality(RaisedSources(r)) = 1 => Len(envelope[r].errors) = 1

(* C3: join barrier.  In no state has search_all_sources returned its      *)
(* envelope while a unit it launched is still running.                     *)
C3_JoinBarrier ==
    \A r \in Slots :
        Returned(r) => \A i \in 1..Len(units[r]) : units[r][i].phase = "done"

C3_Witness ==
    \E r \in Slots :
        /\ Returned(r)
        /\ Len(units[r]) = 5
        /\ \E i, j \in 1..Len(units[r]) :
              units[r][i].failed /\ units[r][j].value # <<>>

(* C4: serving a request changes no shared connection state: a request     *)
(* that is about to issue its queries finds every adapter's connection     *)
(* open, however many requests were served before it.                      *)
C4_LaterRequestsFindOpenConnections ==
    \A r \in Slots :
        pc[r] = "entered" => \A s \in Known : session[s] = "open"

(* C5: no step of one request closes a connection that a still-running     *)
(* unit of another request is using.                                       *)
C5_NoCloseUnderOtherRequest ==
    [][\A r \in Slots : \A i \in 1..Len(units[r]) :
          ( /\ InFlight(units[r][i])
            /\ session[units[r][i].source] = "open"
            /\ units'[r] = units[r]
            /\ pc'[r] = pc[r] )
          => session'[units[r][i].source] = "open"]_vars

(* C6: when a search_all_sources call is cancelled, no unit of it is left  *)
(* running: every unit has finished or has been cancelled.                 *)
C6_CancelReachesUnits ==
    \A r \in Slots :
        pc[r] = "cancelled" => \A i \in 1..Len(units[r]) : ~InFlight(units[r][i])

C6_Witness ==
    \E r \in Slots :
        /\ pc[r] = "cancelled"
        /\ \E i, j \in 1..Len(units[r]) :
              units[r][i].phase = "cancelled" /\ units[r][j].phase = "done"

(* C7: search_all_sources never raises to its caller, whatever the         *)
(* sources' outcomes and the content of the records.                       *)
C7_NeverRaises == \A r \in Slots : pc[r] # "raised"

(* C8: when include_sources is supplied, sources_queried is its            *)
(* intersection with the five known sources; when it is omitted,           *)
(* sources_queried is the five known sources.                              *)
C8_SourcesQueried ==
    \A r \in Slots :
        Returned(r) =>
            IF IsNoneInclude(req[r].include_sources)
            THEN Range(envelope[r].sources_queried) = Known
            ELSE Range(envelope[r].sources_queried)
                   = Range(req[r].include_sources) \cap Known

(* C9: every returned envelope has total_results equal to the sum of the   *)
(* lengths of its three buckets.                                           *)
C9_TotalResults ==
    \A r \in Slots :
        Returned(r) =>
            envelope[r].total_results
              = Len(envelope[r].publications) + Len(envelope[r].clinical_trials)
                + Len(envelope[r].grants)

C9_Witness ==
    \E r \in Slots :
        /\ Returned(r)
        /\ envelope[r].grants # <<>>
        /\ envelope[r].publications # <<>>
        /\ RaisedSources(r) # {}

----------------------------------------------------------------------------
(* One call of _rank_results on a fetched list: what search_all_sources    *)
(* does to each bucket before it returns it.  `now` is the calendar year   *)
(* in which the call is made; the code never reads it.                     *)

MaxRankLen == 3

\* the years in which the service runs
CurrentYears == {2025, 2026}

TitleCardio == <<"C","a","r","d","i","o","v","a","s","c","u","l","a","r"," ",
                 "D","i","s","e","a","s","e"," ",
                 "O","u","t","c","o","m","e","s">>
QueryCardio == <<"c","a","r","d","i","o","v","a","s","c","u","l","a","r"," ",
                 "d","i","s","e","a","s","e">>

RankQueries == Queries \cup {QueryCardio}

FetchedItem(key, title, abstract, year, cites) ==
    [source_key |-> key, title |-> title, abstract |-> abstract,
     year |-> year, citation_count |-> cites]

\* converted records as they stand in a bucket before ranking
Fetched ==
    { ConvertToResearchResult(FetchedItem("k1", TitleCardio, <<>>, 2025, 0), "pubmed"),
      ConvertToResearchResult(FetchedItem("k7", TitleCardio, <<>>, 2026, 0), "crossref"),
      ConvertToResearchResult(FetchedItem("k2", TitleHeartCare, AbstractArt, 2020, 150), "openalex"),
      ConvertToResearchResult(FetchedItem("k3", TitleTrial, <<>>, 2014, 0), "crossref"),
      ConvertToResearchResult(FetchedItem("k4", TitleTrial, <<>>, 2015, 0), "pubmed"),
      ConvertToResearchResult(FetchedItem("k5", TitleTrial, <<>>, NoneYear, 0), "pubmed"),
      ConvertToResearchResult(FetchedItem("k6", TitleTrial, <<>>, 2014, 0), "pubmed"),
      ConvertToResearchResult(ItemNull("pubmed"), "pubmed") }

FetchedLists == UNION {[1..k -> Fetched] : k \in 0..MaxRankLen}

InitRank ==
    /\ IdleAggregator
    /\ ranker \in [pc : {"called"}, results : FetchedLists,
                   query : RankQueries, now : CurrentYears, ranked : {<<>>}]
    /\ matcher = NoCall
    /\ scorer = NoCall
    /\ OthersIdle

\* _rank_results(results, query): raises on a None text, otherwise returns
\* the scored list, sorted
Rank ==
    /\ ranker.pc = "called"
    /\ ranker' = IF RankRaises(ranker.results)
                 THEN [ranker EXCEPT !.pc = "raised"]
                 ELSE [ranker EXCEPT
                         !.pc = "ranked",
                         !.ranked = RankResults(ranker.results, ranker.query)]
    /\ UNCHANGED <<session, pc, req, units, envelope, served, matcher, scorer,
                   adapter, emulator, http>>

NextRank == Rank

SpecRank == InitRank /\ [][NextRank]_vars

Ranked == ranker.pc = "ranked"

\* a record with its score set aside
Unscored(x) == [x EXCEPT !.relevance_score = 0]

\* the year a record sorts by: a record without a year sorts last
YearOf(x) == IF x.year = NoneYear THEN 0 ELSE x.year

\* the elements of seq that lie in S, in their order in seq
Pick(seq, S) == SelectSeq(seq, LAMBDA x : x \in S)

\* the records of the ranked list that tie with its i-th, scores set aside
TiedWith(ranked, i) ==
    {Unscored(ranked[m]) : m \in {n \in 1..Len(ranked) :
        /\ ranked[n].relevance_score = ranked[i].relevance_score
        /\ ranked[n].year = ranked[i].year}}

(* C11: order of a bucket.  A ranked bucket is ordered by relevance_score  *)
(* descending and then by year descending, and the results that tie in     *)
(* score and year stand in the order in which they were fetched.           *)
C11_StableOrder ==
    Ranked =>
        LET ranked == ranker.ranked
            fetched == ranker.results
        IN  /\ Len(ranked) = Len(fetched)
            /\ \A i, j \in 1..Len(ranked) :
                  i < j =>
                     \/ ranked[i].relevance_score > ranked[j].relevance_score
                     \/ /\ ranked[i].relevance_score = ranked[j].relevance_score
                        /\ YearOf(ranked[i]) >= YearOf(ranked[j])
            /\ \A i \in 1..Len(ranked) :
                  Pick([m \in 1..Len(ranked) |-> Unscored(ranked[m])],
                       TiedWith(ranked, i))
                     = Pick(fetched, TiedWith(ranked, i))

\* two different records tie and a third has their score but another year
C11_Witness ==
    /\ Ranked
    /\ \E i, j, k \in 1..Len(ranker.ranked) :
          /\ i < j
          /\ Unscored(ranker.ranked[i]) # Unscored(ranker.ranked[j])
          /\ Unscored(ranker.ranked[j]) \in TiedWith(ranker.ranked, i)
          /\ ranker.ranked[k].relevance_score = ranker.ranked[i].relevance_score
          /\ YearOf(ranker.ranked[k]) < YearOf(ranker.ranked[i])

\* the part of a ranked record's score that the year accounts for
RecencyPart(x, query) ==
    x.relevance_score
    - TermPoints(Split(Lower(query)), Lower(x.title), 4)
    - TermPoints(Split(Lower(query)), Lower(x.abstract), 2)
    - CitationPoints(x)

\* the part of a ranked record's score that the query accounts for
TermPart(x) == x.relevance_score - RecencyPoints(x.year) - CitationPoints(x)

\* how many terms of the list are present in text, one count per entry
Present(terms, text) ==
    Cardinality({k \in 1..Len(terms) : Contains(terms[k], text)})

(* C12: recency relative to the current year.  The recency part of every   *)
(* ranked result's score is 1.0 when year >= current year - 5, otherwise   *)
(* 0.5 when year >= current year - 10, otherwise 0, and 0 for a missing    *)
(* year, in whichever year the call is made.                               *)
C12_RecencyRelative ==
    Ranked =>
        \A i \in 1..Len(ranker.ranked) :
            LET x == ranker.ranked[i]
            IN  RecencyPart(x, ranker.query) =
                   IF x.year = NoneYear THEN 0
                   ELSE IF x.year >= ranker.now - 5 THEN 2
                   ELSE IF x.year >= ranker.now - 10 THEN 1
                   ELSE 0

(* C13: term overlap.  The part of a ranked result's score that is neither *)
(* recency nor citations is 2.0 for every term of the lower-cased,         *)
(* whitespace-split query present in the title plus 1.0 for every term     *)
(* present in the abstract; query "cardiovascular disease" against the     *)
(* title "Cardiovascular Disease Outcomes" of the current year, with no    *)
(* abstract match, scores 5.0.                                             *)
C13_TermOverlap ==
    Ranked =>
        \A i \in 1..Len(ranker.ranked) :
            LET x == ranker.ranked[i]
                terms == Split(Lower(ranker.query))
            IN  /\ TermPart(x) = 4 * Present(terms, Lower(x.title))
                                 + 2 * Present(terms, Lower(x.abstract))
                /\ ( /\ ranker.query = QueryCardio
                     /\ x.title = TitleCardio
                     /\ x.abstract = <<>>
                     /\ x.year = ranker.now
                     /\ x.source # "openalex" )
                   => x.relevance_score = 10

C13_Witness ==
    /\ Ranked
    /\ ranker.query = QueryCardio
    /\ \E i \in 1..Len(ranker.ranked) :
          /\ ranker.ranked[i].title = TitleCardio
          /\ ranker.ranked[i].year = ranker.now
          /\ ranker.ranked[i].relevance_score = 10
    /\ \E i \in 1..Len(ranker.ranked) :
          Present(Split(Lower(ranker.query)), Lower(ranker.ranked[i].title)) = 0

----------------------------------------------------------------------------
(* MatchingService.find_matches.  A work is a vector-search hit: work_id,  *)
(* score and payload.  Similarity scores are counted in hundredths,        *)
(* doctor, institution and total scores in quarter points (50.5 is 202).   *)
(* A key missing from a payload is NoneYear for the year.  Titles, urls    *)
(* and the explanation text are not modelled.                              *)

MaxHits == 6
MaxPubs == 20
MaxTrials == 2

Payload(source, key, year, mesh, authors, country, is_pi) ==
    [source |-> source, source_key |-> key, year |-> year,
     mesh_terms |-> mesh, author_ids |-> authors, country |-> country,
     is_pi |-> is_pi]

Work(id, score, payload) == [work_id |-> id, score |-> score, payload |-> payload]

\* the works_vectors collection: the works Qdrant may return
Collection ==
    { Work(<<"w", 1>>, 95, Payload("pubmed", <<"PMID", 1>>, 2023, {"m1"}, {"doctor_1"}, "US", FALSE)),
      Work(<<"w", 2>>, 90, Payload("ctgov", <<"NCT", 2>>, 2022, {"m2"}, {"doctor_2"}, "US", TRUE)),
      Work(<<"w", 3>>, 88, Payload("openalex", <<"W", 3>>, 2024, {"m1", "m2"}, {"doctor_1", "doctor_4"}, "DE", FALSE)),
      Work(<<"w", 4>>, 85, Payload("pubmed", <<"PMID", 4>>, 2018, {"m1"}, {"doctor_3"}, "US", FALSE)),
      Work(<<"w", 5>>, 80, Payload("pubmed", <<"PMID", 5>>, 2020, {"m1"}, {"doctor_2"}, "DE", FALSE)),
      Work(<<"w", 6>>, 75, Payload("ctgov", <<"NCT", 6>>, 2021, {"m2"}, {"doctor_1"}, "US", FALSE)),
      Work(<<"w", 7>>, 70, Payload("pubmed", <<"PMID", 7>>, NoneYear, {}, {"doctor_3"}, "US", FALSE)) }

\* the hits of a search come ordered by score, best first
RECURSIVE ByScore(_)
ByScore(S) ==
    IF S = {} THEN <<>>
    ELSE LET best == CHOOSE w \in S : \A v \in S : v.score <= w.score
         IN  <<best>> \o ByScore(S \ {best})

SearchResults == {ByScore(S) : S \in {T \in SUBSET Collection : Cardinality(T) <= MaxHits}}

\* _get_mock_vector_results: twenty PubMed works, score 0.9 - i * 0.1
MockVectorResults ==
    [k \in 1..20 |->
        LET i == k - 1
        IN  Work(<<"work", i>>, 90 - i * 10,
                 Payload("pubmed", <<"PMID", 12345000 + i>>, 2023 - (i % 5),
                         {"D016491", "D058729"},
                         {IF i % 3 = 0 THEN "doctor_1"
                          ELSE IF i % 3 = 1 THEN "doctor_2" ELSE "doctor_3"},
                         "US", i % 3 = 0))]

\* the outcome of qdrant_client.search: an exception or the hits
QdrantOutcomes == {Exc} \cup {Ok(hits) : hits \in SearchResults}

\* _vector_search: the hits, or the mock works when the search raised
VectorSearch(outcome) ==
    IF outcome.kind = "exc" THEN MockVectorResults ELSE outcome.items

\* MatchRequest.filters: None, or a MatchFilters object
NoFilters == [given |-> FALSE, min_year |-> NoneYear, mesh_terms |-> {}, countries |-> {}]

MatchFilters(min_year, mesh_terms, countries) ==
    [given |-> TRUE, min_year |-> min_year, mesh_terms |-> mesh_terms,
     countries |-> countries]

FilterChoices ==
    { NoFilters,
      MatchFilters(2019, {}, {}),
      MatchFilters(2021, {"m1"}, {"US"}) }

MaxResultsChoices == {1, 2, 10}

\* the defaults of filters.get("min_year", ...) and payload.get("year", ...)
DefaultMinYear == 2019
MissingYear == 2025

\* `if not filters: filters = {}`: None becomes the empty dict, on which
\* filters.get(key, default) yields the defaults; a MatchFilters object is
\* truthy and stays
EmptyDictGet == [min_year |-> DefaultMinYear, mesh_terms |-> {}, countries |-> {}]

\* filters.get on a MatchFilters object: AttributeError, at the first hit
FilterRaises(vector_results, filters) == filters.given /\ vector_results # <<>>

\* one pass of the loop body: TRUE when the hit is appended
KeepResult(result, got) ==
    LET payload == result.payload
        year == IF payload.year = NoneYear THEN MissingYear ELSE payload.year
    IN  /\ ~(year < got.min_year)
        /\ ~(got.mesh_terms # {} /\ got.mesh_terms \cap payload.mesh_terms = {})
        /\ ~(got.countries # {} /\ payload.country \notin got.countries)

\* the loop, when it does not raise: filters is the empty dict
ApplySymbolicFilters(vector_results, filters) ==
    SelectSeq(vector_results, LAMBDA result : KeepResult(result, EmptyDictGet))

\* _aggregate_to_doctors: every work goes to doctor_1, doctor_2, doctor_3;
\* the dict as the list of its items, in insertion order
MockDoctors == <<"doctor_1", "doctor_2", "doctor_3">>

AggregateToDoctors(works) ==
    IF works = <<>> THEN <<>>
    ELSE [k \in 1..Len(MockDoctors) |-> [doctor_id |-> MockDoctors[k], works |-> works]]

\* current_year of _calculate_score_components
CurrentYear == 2025

\* a bucket that is not capped
CitationsBucket_Uncapped(pubs_5y) == pubs_5y \div 5

\* min(3, pubs_5y // 5)
CitationsBucket(pubs_5y) ==
    IF pubs_5y \div 5 < 3 THEN pubs_5y \div 5 ELSE 3

\* payload.get("year", 0)
YearOrZero(payload) == IF payload.year = NoneYear THEN 0 ELSE payload.year

CalculateScoreComponents(doctor_id, works) ==
    LET pubs_5y == Len(SelectSeq(works, LAMBDA w :
                        /\ w.payload.source = "pubmed"
                        /\ YearOrZero(w.payload) >= CurrentYear - 5))
        trials_pi == Len(SelectSeq(works, LAMBDA w :
                        /\ w.payload.source = "ctgov"
                        /\ w.payload.is_pi))
    IN  [pubs_5y |-> pubs_5y,
         trials_pi |-> trials_pi,
         citations_bucket |-> CitationsBucket(pubs_5y),
         inst_pubs |-> pubs_5y * 5,
         inst_trials |-> trials_pi * 2,
         nih_grants |-> trials_pi]

\* the scoring formula, in quarter points
DoctorScore(components) ==
    4 * (2 * components.pubs_5y + 5 * components.trials_pi
         + 1 * components.citations_bucket)

InstitutionScore(components) ==
    2 * components.inst_pubs + 8 * components.inst_trials
    + 2 * components.nih_grants

\* a total that takes the institution score whole
TotalScore_WholeInstitution(doctor_score, institution_score) ==
    doctor_score + institution_score

TotalScore(doctor_score, institution_score) ==
    doctor_score + institution_score \div 2

ScoreDoctor(doctor_id, components, works) ==
    [doctor_id |-> doctor_id,
     doctor_score |-> DoctorScore(components),
     institution_score |-> InstitutionScore(components),
     total_score |-> TotalScore(DoctorScore(components), InstitutionScore(components)),
     components |-> components,
     works |-> works]

CalculateScores(doctor_works) ==
    [k \in 1..Len(doctor_works) |->
        ScoreDoctor(doctor_works[k].doctor_id,
                    CalculateScoreComponents(doctor_works[k].doctor_id,
                                             doctor_works[k].works),
                    doctor_works[k].works)]

\* works[:5]
EvidenceLimit == 5

EvidenceItem(work) ==
    [type |-> work.payload.source,
     year |-> work.payload.year,
     relevance_score |-> work.score,
     work_id |-> work.work_id,
     source_key |-> work.payload.source_key,
     role |-> IF work.payload.source = "ctgov"
              THEN (IF work.payload.is_pi THEN "PI" ELSE "Investigator")
              ELSE "none"]

GenerateEvidence(works) ==
    LET n == IF Len(works) < EvidenceLimit THEN Len(works) ELSE EvidenceLimit
    IN  [k \in 1..n |-> EvidenceItem(works[k])]

GenerateMatchResults(scored_doctors) ==
    [k \in 1..Len(scored_doctors) |->
        [doctor_id |-> scored_doctors[k].doctor_id,
         total_score |-> scored_doctors[k].total_score,
         doctor_score |-> scored_doctors[k].doctor_score,
         institution_score |-> scored_doctors[k].institution_score,
         components |-> scored_doctors[k].components,
         evidence |-> GenerateEvidence(scored_doctors[k].works)]]

\* sorted(matches, key=total_score, reverse=True): stable
InsertByTotal(sorted, x) ==
    LET smaller == {i \in 1..Len(sorted) : sorted[i].total_score < x.total_score}
    IN  IF smaller = {} THEN Append(sorted, x)
        ELSE LET p == CHOOSE i \in smaller : \A j \in smaller : i <= j
             IN  SubSeq(sorted, 1, p - 1) \o <<x>> \o SubSeq(sorted, p, Len(sorted))

RECURSIVE SortedByTotal(_)
SortedByTotal(matches) ==
    IF matches = <<>> THEN <<>>
    ELSE InsertByTotal(SortedByTotal(SubSeq(matches, 1, Len(matches) - 1)),
                       matches[Len(matches)])

\* [:10]
TopLimit == 10

TopMatches(matches) ==
    SubSeq(SortedByTotal(matches), 1,
           IF Len(matches) < TopLimit THEN Len(matches) ELSE TopLimit)

----------------------------------------------------------------------------
(* One call of find_matches, and one call of the scoring functions on      *)
(* works or components given directly.                                     *)

MatchRequests ==
    [pc : {"called"}, filters : FilterChoices, max_results : MaxResultsChoices,
     now : CurrentYears, fallback : {FALSE}, vector_results : {<<>>},
     filtered : {<<>>}, doctor_works : {<<>>}, matches : {<<>>}]

\* n recent PubMed works and k trials led as PI, then an old PubMed work
\* and a trial not led
ScorerWorks(n, k) ==
    [i \in 1..n |->
        Work(<<"p", i>>, 90, Payload("pubmed", <<"PMID", i>>, 2020 + (i % 4),
                                     {}, {"doctor_1"}, "US", FALSE))]
    \o [i \in 1..k |->
        Work(<<"t", i>>, 80, Payload("ctgov", <<"NCT", i>>, 2022,
                                     {}, {"doctor_1"}, "US", TRUE))]
    \o << Work(<<"p", 0>>, 70, Payload("pubmed", <<"PMID", 0>>, 2019,
                                       {}, {"doctor_1"}, "US", FALSE)),
          Work(<<"t", 0>>, 70, Payload("ctgov", <<"NCT", 0>>, 2022,
                                       {}, {"doctor_1"}, "US", FALSE)) >>

NoComponents ==
    [pubs_5y |-> 0, trials_pi |-> 0, citations_bucket |-> 0,
     inst_pubs |-> 0, inst_trials |-> 0, nih_grants |-> 0]

ExampleComponents ==
    [pubs_5y |-> 8, trials_pi |-> 2, citations_bucket |-> 1,
     inst_pubs |-> 45, inst_trials |-> 12, nih_grants |-> 3]

ScorerCalls ==
    {[pc |-> "works", works |-> ScorerWorks(n, k), components |-> NoComponents,
      scored |-> <<>>] : n \in 0..MaxPubs, k \in 0..MaxTrials}
    \cup
    {[pc |-> "components", works |-> <<>>, components |-> c, scored |-> <<>>] :
        c \in {NoComponents, ExampleComponents}}

InitMatch ==
    /\ IdleAggregator
    /\ ranker = NoCall
    /\ \/ matcher \in MatchRequests /\ scorer = NoCall
       \/ matcher = NoCall /\ scorer \in ScorerCalls
    /\ OthersIdle

\* find_matches(match_request): raises when the filter loop meets a
\* MatchFilters object, otherwise returns the sorted, truncated matches
FindMatches(outcome) ==
    /\ matcher.pc = "called"
    /\ LET vector_results == VectorSearch(outcome)
           searched == [matcher EXCEPT !.fallback = (outcome.kind = "exc"),
                                       !.vector_results = vector_results]
       IN  IF FilterRaises(vector_results, matcher.filters)
           THEN matcher' = [searched EXCEPT !.pc = "raised"]
           ELSE LET filtered == ApplySymbolicFilters(vector_results, matcher.filters)
                    doctor_works == AggregateToDoctors(filtered)
                    scored_doctors == CalculateScores(doctor_works)
                    matches == GenerateMatchResults(scored_doctors)
                IN  matcher' = [searched EXCEPT
                                  !.pc = "returned",
                                  !.filtered = filtered,
                                  !.doctor_works = doctor_works,
                                  !.matches = TopMatches(matches)]
    /\ UNCHANGED <<session, pc, req, units, envelope, served, ranker, scorer,
                   adapter, emulator, http>>

\* _calculate_score_components(doctor_id, works, case_json)
Components ==
    /\ scorer.pc = "works"
    /\ scorer' = [scorer EXCEPT
                    !.pc = "components",
                    !.components = CalculateScoreComponents("doctor_1", scorer.works)]
    /\ UNCHANGED <<session, pc, req, units, envelope, served, ranker, matcher,
                   adapter, emulator, http>>

\* the scoring formula of _calculate_scores on the components
Score ==
    /\ scorer.pc = "components"
    /\ scorer' = [scorer EXCEPT
                    !.pc = "scored",
                    !.scored = ScoreDoctor("doctor_1", scorer.components, scorer.works)]
    /\ UNCHANGED <<session, pc, req, units, envelope, served, ranker, matcher,
                   adapter, emulator, http>>

NextMatch ==
    \/ \E outcome \in QdrantOutcomes : FindMatches(outcome)
    \/ Components
    \/ Score

SpecMatch == InitMatch /\ [][NextMatch]_vars

----------------------------------------------------------------------------
(* Vocabulary of the matching properties *)

MatchReturned == matcher.pc = "returned"

MatchCompleted == matcher.pc \in {"returned", "raised"}

\* the scored records at hand: the returned matches and the record the
\* scoring formula produced
ScoredRecords ==
    (IF MatchReturned THEN Range(matcher.matches) ELSE {})
    \cup (IF scorer.pc = "scored" THEN {scorer.scored} ELSE {})

\* the component records at hand
ComponentRecords ==
    {m.components : m \in ScoredRecords}
    \cup (IF scorer.pc = "components" THEN {scorer.components} ELSE {})

\* the surviving works associated with specialist d, by position
AssociatedAt(d) ==
    {k \in 1..Len(matcher.filtered) : d \in matcher.filtered[k].payload.author_ids}

\* every specialist named by the service or by a surviving work
Specialists ==
    Range(MockDoctors)
    \cup UNION {matcher.filtered[k].payload.author_ids : k \in 1..Len(matcher.filtered)}

(* C14: scoring formula.  Every scored record satisfies doctor_score =     *)
(* 2*pubs_5y + 5*trials_pi + 1*citations_bucket, institution_score =       *)
(* 0.5*inst_pubs + 2*inst_trials + 0.5*nih_grants and total_score =        *)
(* doctor_score + 0.5*institution_score (all in quarter points), and the   *)
(* components (8, 2, 1, 45, 12, 3) give 27, 47.0 and 50.5.                 *)
C14_ScoringFormula ==
    \A m \in ScoredRecords :
        LET c == m.components
        IN  /\ m.doctor_score = 4 * (2 * c.pubs_5y + 5 * c.trials_pi + c.citations_bucket)
            /\ m.institution_score = 2 * c.inst_pubs + 8 * c.inst_trials + 2 * c.nih_grants
            /\ 2 * m.total_score = 2 * m.doctor_score + m.institution_score
            /\ c = ExampleComponents =>
                  /\ m.doctor_score = 4 * 27
                  /\ m.institution_score = 4 * 47
                  /\ m.total_score = 202

(* C14, amended: the same formula; the components (8, 2, 1, 45, 12, 3)     *)
(* give 27, 48.0 and 51.0.                                                 *)
C14_ScoringFormula_Amended ==
    \A m \in ScoredRecords :
        LET c == m.components
        IN  /\ m.doctor_score = 4 * (2 * c.pubs_5y + 5 * c.trials_pi + c.citations_bucket)
            /\ m.institution_score = 2 * c.inst_pubs + 8 * c.inst_trials + 2 * c.nih_grants
            /\ 2 * m.total_score = 2 * m.doctor_score + m.institution_score
            /\ c = ExampleComponents =>
                  /\ m.doctor_score = 4 * 27
                  /\ m.institution_score = 4 * 48
                  /\ m.total_score = 4 * 51

C14_Witness ==
    /\ scorer.pc = "scored"
    /\ scorer.components = ExampleComponents
    /\ scorer.scored.institution_score = 4 * 48
    /\ scorer.scored.total_score = 4 * 51

(* C15: citations bucket.  citations_bucket is min(3, pubs_5y // 5) and    *)
(* lies in 0..3: pubs_5y of 4 gives 0, 5 gives 1, 14 gives 2, 15 or more   *)
(* gives 3.                                                                *)
C15_CitationsBucket ==
    \A c \in ComponentRecords :
        /\ c.citations_bucket \in 0..3
        /\ c.citations_bucket * 5 <= c.pubs_5y
        /\ c.citations_bucket < 3 => c.pubs_5y < (c.citations_bucket + 1) * 5
        /\ c.pubs_5y = 4 => c.citations_bucket = 0
        /\ c.pubs_5y = 5 => c.citations_bucket = 1
        /\ c.pubs_5y = 14 => c.citations_bucket = 2
        /\ c.pubs_5y >= 15 => c.citations_bucket = 3

C15_Witness ==
    /\ scorer.pc = "components"
    /\ scorer.works # <<>>
    /\ scorer.components.pubs_5y = MaxPubs
    /\ scorer.components.citations_bucket = 3

(* C16: size and order of the answer.  find_matches returns exactly        *)
(* min(max_results, number of qualifying specialists) results, ordered by  *)
(* total_score descending.                                                 *)
C16_TopMaxResults ==
    MatchReturned =>
        /\ Len(matcher.matches) =
              IF matcher.max_results < Len(matcher.doctor_works)
              THEN matcher.max_results ELSE Len(matcher.doctor_works)
        /\ \A i, j \in 1..Len(matcher.matches) :
              i < j => matcher.matches[i].total_score >= matcher.matches[j].total_score

(* C17: symbolic filter.  The filter keeps, in their original order,       *)
(* exactly the candidates whose year is at least filters.min_year (2019    *)
(* when no filters are given), whose coded terms meet filters.mesh_terms   *)
(* when that is non-empty and whose country is in filters.countries when   *)
(* that is non-empty.                                                      *)
C17_SymbolicFilter ==
    MatchCompleted =>
        LET f == matcher.filters
            min_year == IF f.given THEN f.min_year ELSE 2019
        IN  matcher.filtered =
               SelectSeq(matcher.vector_results, LAMBDA w :
                   /\ w.payload.year = NoneYear \/ w.payload.year >= min_year
                   /\ f.mesh_terms = {} \/ f.mesh_terms \cap w.payload.mesh_terms # {}
                   /\ f.countries = {} \/ w.payload.country \in f.countries)

(* C18: per-specialist aggregation.  A specialist's work list holds a      *)
(* surviving work if and only if the specialist is associated with it, and *)
(* a specialist with no associated surviving work does not appear.         *)
C18_Association ==
    MatchReturned =>
        \A d \in Specialists :
            LET at == {k \in 1..Len(matcher.doctor_works) :
                          matcher.doctor_works[k].doctor_id = d}
            IN  /\ (at # {}) <=> (AssociatedAt(d) # {})
                /\ \A k \in at :
                      Range(matcher.doctor_works[k].works)
                         = {matcher.filtered[n] : n \in AssociatedAt(d)}

(* C19: counted components.  pubs_5y is the number of the specialist's     *)
(* associated literature works of the last 5 years of the current year,    *)
(* trials_pi the number of the specialist's associated clinical-trial      *)
(* works led as principal investigator.                                    *)
C19_Components ==
    MatchReturned =>
        \A m \in Range(matcher.matches) :
            /\ m.components.pubs_5y =
                  Cardinality({k \in AssociatedAt(m.doctor_id) :
                      LET p == matcher.filtered[k].payload
                      IN  /\ p.source \in {"pubmed", "openalex", "crossref"}
                          /\ p.year # NoneYear
                          /\ p.year >= matcher.now - 5})
            /\ m.components.trials_pi =
                  Cardinality({k \in AssociatedAt(m.doctor_id) :
                      LET p == matcher.filtered[k].payload
                      IN  p.source = "ctgov" /\ p.is_pi})

(* C20: evidence.  A match's evidence holds at most 5 items, all of them   *)
(* works associated with the specialist, and no associated work left out   *)
(* has a higher relevance score than one included.                         *)
C20_Evidence ==
    MatchReturned =>
        \A m \in Range(matcher.matches) :
            LET assoc == {matcher.filtered[k] : k \in AssociatedAt(m.doctor_id)}
                shown == {e.work_id : e \in Range(m.evidence)}
            IN  /\ Len(m.evidence) <= 5
                /\ Len(m.evidence) = IF Cardinality(assoc) < 5
                                     THEN Cardinality(assoc) ELSE 5
                /\ shown \subseteq {w.work_id : w \in assoc}
                /\ \A w \in assoc :
                      w.work_id \notin shown =>
                         \A e \in Range(m.evidence) : w.score <= e.relevance_score

(* C21: no fabricated candidates.  When the vector search fails,           *)
(* find_matches reports a failure to its caller; it does not return a      *)
(* match list built from hard-coded candidates (the service has no         *)
(* degraded-mode switch).                                                  *)
C21_FailureSurfaced ==
    (MatchCompleted /\ matcher.fallback) =>
        /\ matcher.pc = "raised"
        /\ matcher.matches = <<>>

(* C27: filters are accepted.  find_matches completes with a ranked list   *)
(* whether filters is omitted or a MatchFilters object is supplied, and    *)
(* the supplied min_year, mesh_terms and countries are the values the      *)
(* symbolic filter applies.                                                *)
C27_FiltersAccepted ==
    MatchCompleted =>
        /\ matcher.pc = "returned"
        /\ matcher.filters.given =>
              matcher.filtered =
                 SelectSeq(matcher.vector_results, LAMBDA w :
                     KeepResult(w, [min_year |-> matcher.filters.min_year,
                                    mesh_terms |-> matcher.filters.mesh_terms,
                                    countries |-> matcher.filters.countries]))

----------------------------------------------------------------------------
(* Further properties of the aggregator *)

\* the requests whose units have been started
Launched == {r \in Slots : pc[r] \in {"running", "cancelled", "returned", "raised"}}

(* C25: one record per identity.  In every returned envelope no two        *)
(* results share the same (source, source_key) pair.                       *)
C25_NoDuplicateIdentity ==
    \A r \in Slots :
        Returned(r) =>
            \A i, j \in 1..Len(AllResults(envelope[r])) :
                ( /\ AllResults(envelope[r])[i].source = AllResults(envelope[r])[j].source
                  /\ AllResults(envelope[r])[i].source_key
                        = AllResults(envelope[r])[j].source_key )
                => i = j

(* C26: one unit per source.  The number of units started equals the       *)
(* number of distinct known sources selected, and every started unit's     *)
(* result is collected into the returned envelope.                         *)
C26_OneUnitPerSource ==
    \A r \in Launched :
        /\ Len(units[r]) =
              Cardinality(Range(SourcesToQuery(req[r].include_sources)) \cap Known)
        /\ Returned(r) =>
              \A i \in 1..Len(units[r]) :
                  Range(ConvertAll(units[r][i].value, units[r][i].source))
                     \subseteq Contribution(envelope[r], units[r][i].source)

----------------------------------------------------------------------------
(* One adapter search on a raw remote answer, and the conversion of what   *)
(* it returns.  A raw item is named by its shape: "good1" and "good2" are  *)
(* processed into Item1 and Item2, "null" carries a null title or          *)
(* abstract (ItemNull), and processing "broken" raises (a null authorships *)
(* list, an empty Crossref title list, a null Organization, a null         *)
(* official role, an article without PMID).                                *)

MaxRawLen == 3

RawShapes == {"good1", "good2", "null", "broken"}

\* session.get raised, raise_for_status raised, the body did not parse
FailureKinds == {"network", "status", "malformed"}

Responses ==
    {[kind |-> k, items |-> <<>>] : k \in FailureKinds}
    \cup {Ok(items) : items \in UNION {[1..n -> RawShapes] : n \in 0..MaxRawLen}}

\* _process_openalex_work and its like, _extract_publication_data
ProcessItem(shape, source) ==
    IF shape = "good1" THEN Item1
    ELSE IF shape = "good2" THEN Item2
    ELSE ItemNull(source)

Breaks(shape) == shape = "broken"

\* the search method of the adapter of source: every exception inside its
\* try, a processing error included, ends in `return []`; only PubMed's
\* _extract_publication_data catches per article and skips it
AdapterSearch(source, response) ==
    IF response.kind # "ok" THEN <<>>
    ELSE IF source = "pubmed"
    THEN LET kept == SelectSeq(response.items, LAMBDA shape : ~Breaks(shape))
         IN  [i \in 1..Len(kept) |-> ProcessItem(kept[i], source)]
    ELSE IF \E i \in 1..Len(response.items) : Breaks(response.items[i])
    THEN <<>>
    ELSE [i \in 1..Len(response.items) |-> ProcessItem(response.items[i], source)]

\* a conversion that takes the title out of the record it reads
ConvertCall_Popping(item, source) ==
    [result |-> ConvertToResearchResult(item, source),
     item |-> [item EXCEPT !.title = <<>>]]

\* one call of _convert_to_research_result: the value returned and the
\* record as the call leaves it (the call only reads it, with item.get)
ConvertCall(item, source) ==
    [result |-> ConvertToResearchResult(item, source), item |-> item]

InitAdapter ==
    /\ IdleAggregator
    /\ ranker = NoCall
    /\ matcher = NoCall
    /\ scorer = NoCall
    /\ adapter \in [pc : {"called"}, source : Known, response : Responses,
                    raised : {FALSE}, result : {<<>>}, first : {<<>>},
                    second : {<<>>}, after : {<<>>}]
    /\ emulator = NoCall
    /\ http = NoCall

\* the adapter's search returns; it has no path on which it raises
Search ==
    /\ adapter.pc = "called"
    /\ adapter' = [adapter EXCEPT
                     !.pc = "searched",
                     !.raised = FALSE,
                     !.result = AdapterSearch(adapter.source, adapter.response)]
    /\ UNCHANGED <<session, pc, req, units, envelope, served, ranker, matcher,
                   scorer, emulator, http>>

\* every returned record is converted, and converted once more
Parse ==
    /\ adapter.pc = "searched"
    /\ LET n == Len(adapter.result)
           once == [i \in 1..n |-> ConvertCall(adapter.result[i], adapter.source)]
           twice == [i \in 1..n |-> ConvertCall(once[i].item, adapter.source)]
       IN  adapter' = [adapter EXCEPT
                         !.pc = "parsed",
                         !.first = [i \in 1..n |-> once[i].result],
                         !.second = [i \in 1..n |-> twice[i].result],
                         !.after = [i \in 1..n |-> twice[i].item]]
    /\ UNCHANGED <<session, pc, req, units, envelope, served, ranker, matcher,
                   scorer, emulator, http>>

NextAdapter == Search \/ Parse

SpecAdapter == InitAdapter /\ [][NextAdapter]_vars

Searched == adapter.pc \in {"searched", "parsed"}

(* C22: failures are told apart.  When the remote request of an adapter    *)
(* fails (network failure, non-success status, malformed response), what   *)
(* its search gives the coordinator differs from what a successful search  *)
(* with zero records gives.                                                *)
C22_FailureDistinguishable ==
    (Searched /\ adapter.response.kind \in FailureKinds) =>
        [raised |-> adapter.raised, result |-> adapter.result]
            # [raised |-> FALSE,
               result |-> AdapterSearch(adapter.source, Ok(<<>>))]

(* C23: a malformed item is skipped alone.  For every adapter, a valid     *)
(* response with a malformed item yields every well-formed item of the     *)
(* response, in order, and only those.                                     *)
C23_MalformedItemSkipped ==
    (Searched /\ adapter.response.kind = "ok") =>
        LET well == SelectSeq(adapter.response.items, LAMBDA shape : shape # "broken")
        IN  /\ ~adapter.raised
            /\ adapter.result = [i \in 1..Len(well) |-> ProcessItem(well[i], adapter.source)]

----------------------------------------------------------------------------
(* LocalTaskEmulator.  create_task runs the handler inside the call, and a *)
(* handler may call create_task again, so calls nest: stack holds the      *)
(* calls under way, innermost last.  tasks is the dict of TaskResult       *)
(* objects by task_id; log lists the calls in the order they began; a      *)
(* time stamp is the number of completions so far, 0 for None.             *)
(*                                                                         *)
(* In "app" mode the emulator is the one the application builds at start   *)
(* up; in "direct" mode handlers were registered on it with                *)
(* register_handler: one that returns, one that raises, or one that calls  *)
(* create_task for the next type and returns ("chains").                   *)

MaxTasks == 3
MaxSecond == 1

TaskTypes == {"diagnosis_analysis", "specialist_matching", "notification"}

\* a type no handler is ever registered for
OtherType == "report"

NextType(task_type) ==
    IF task_type = "diagnosis_analysis" THEN "specialist_matching" ELSE "notification"

HandlerMaps ==
    {h \in [TaskTypes -> {"none", "returns", "raises", "chains"}] :
        h["notification"] # "chains"}

NoHandlers == [task_type \in TaskTypes |-> "none"]

\* task_type in self.task_handlers
HasHandler(handlers, task_type) ==
    task_type \in TaskTypes /\ handlers[task_type] # "none"

\* an id made of the second alone
TaskId_SecondOnly(task_counter, second) == <<"local_task", 0, second>>

\* f"local_task_{self.task_counter}_{int(datetime.now().timestamp())}"
TaskId(task_counter, second) == <<"local_task", task_counter, second>>

\* TaskResult(task_id, status='running', created_at)
NewTask(task_id) ==
    [task_id |-> task_id, status |-> "running", completed_at |-> 0,
     result |-> "None", error |-> "None"]

\* lines 45-55: count, name, record as running; the call is now under way
BeginCall(e, task_type, second) ==
    LET task_id == TaskId(e.task_counter + 1, second)
    IN  [e EXCEPT
           !.task_counter = e.task_counter + 1,
           !.second = second,
           !.tasks = (task_id :> NewTask(task_id)) @@ e.tasks,
           !.log = Append(e.log, [task_id |-> task_id, task_type |-> task_type,
                                  returned |-> FALSE]),
           !.stack = Append(e.stack, [task_id |-> task_id, task_type |-> task_type,
                                      at |-> Len(e.log) + 1, nested |-> FALSE])]

\* lines 64-66 and 71-73, then `return task_id`
EndCall(e, completed) ==
    LET frame == e.stack[Len(e.stack)]
    IN  [e EXCEPT
           !.ticks = e.ticks + 1,
           !.tasks[frame.task_id] =
               IF completed
               THEN [@ EXCEPT !.status = "completed",
                              !.completed_at = e.ticks + 1,
                              !.result = "result"]
               ELSE [@ EXCEPT !.status = "failed",
                              !.completed_at = e.ticks + 1,
                              !.error = "error"],
           !.log[frame.at].returned = TRUE,
           !.stack = SubSeq(e.stack, 1, Len(e.stack) - 1)]

Emulators ==
    [pc : {"ready"}, mode : {"direct"}, started : {TRUE}, handlers : HandlerMaps,
     tasks : {<<>>}, log : {<<>>}, stack : {<<>>}, task_counter : {0},
     second : {0}, ticks : {0}]
    \cup
    [pc : {"ready"}, mode : {"app"}, started : {FALSE}, handlers : {NoHandlers},
     tasks : {<<>>}, log : {<<>>}, stack : {<<>>}, task_counter : {0},
     second : {0}, ticks : {0}]

InitEmulator ==
    /\ IdleAggregator
    /\ ranker = NoCall
    /\ matcher = NoCall
    /\ scorer = NoCall
    /\ adapter = NoCall
    /\ emulator \in Emulators
    /\ http = NoCall

\* main.py: `from app.services.task_handlers import initialize_task_handlers`
\* raises ImportError, because task_handlers imports the name queue_service
\* that queue_service.py no longer defines; the except clause prints a
\* warning and no handler is registered
Startup ==
    /\ emulator.pc = "ready"
    /\ ~emulator.started
    /\ emulator' = [emulator EXCEPT !.started = TRUE]
    /\ UNCHANGED <<session, pc, req, units, envelope, served, ranker, matcher,
                   scorer, adapter, http>>

\* a caller outside any handler calls create_task(task_type, payload)
CreateTask(task_type, second) ==
    /\ emulator.pc = "ready"
    /\ emulator.started
    /\ emulator.stack = <<>>
    /\ emulator.task_counter < MaxTasks
    /\ second >= emulator.second
    /\ emulator' = BeginCall(emulator, task_type, second)
    /\ UNCHANGED <<session, pc, req, units, envelope, served, ranker, matcher,
                   scorer, adapter, http>>

\* the handler of the innermost call calls create_task for the next type
NestedCreateTask(second) ==
    /\ emulator.pc = "ready"
    /\ emulator.stack # <<>>
    /\ emulator.task_counter < MaxTasks
    /\ second >= emulator.second
    /\ LET frame == emulator.stack[Len(emulator.stack)]
       IN  /\ HasHandler(emulator.handlers, frame.task_type)
           /\ emulator.handlers[frame.task_type] = "chains"
           /\ ~frame.nested
           /\ emulator' =
                 BeginCall([emulator EXCEPT !.stack[Len(emulator.stack)].nested = TRUE],
                           NextType(frame.task_type), second)
    /\ UNCHANGED <<session, pc, req, units, envelope, served, ranker, matcher,
                   scorer, adapter, http>>

\* the innermost call ends: no handler (ValueError) or a handler that
\* raised makes the task failed, a handler that returned makes it completed
ReturnTask ==
    /\ emulator.pc = "ready"
    /\ emulator.stack # <<>>
    /\ LET frame == emulator.stack[Len(emulator.stack)]
           kind == IF HasHandler(emulator.handlers, frame.task_type)
                   THEN emulator.handlers[frame.task_type] ELSE "none"
       IN  /\ kind = "chains" => frame.nested
           /\ emulator' = EndCall(emulator, kind \in {"returns", "chains"})
    /\ UNCHANGED <<session, pc, req, units, envelope, served, ranker, matcher,
                   scorer, adapter, http>>

NextEmulator ==
    \/ Startup
    \/ \E task_type \in TaskTypes \cup {OtherType}, second \in 0..MaxSecond :
          CreateTask(task_type, second)
    \/ \E second \in 0..MaxSecond : NestedCreateTask(second)
    \/ ReturnTask

SpecEmulator == InitEmulator /\ [][NextEmulator]_vars

\* the handler behaviour create_task met for a call
HandlerKind(call) ==
    IF HasHandler(emulator.handlers, call.task_type)
    THEN emulator.handlers[call.task_type] ELSE "none"

\* the recorded task of a call
TaskOf(call) == emulator.tasks[call.task_id]

UnderWay == {emulator.stack[k].task_id : k \in 1..Len(emulator.stack)}

\* C28: every create_task call is recorded under an id no earlier call got;
\* once the call has returned its task has completed_at set and is
\* 'completed' with a result when the handler returned, 'failed' with an
\* error when no handler is registered or the handler raised; no task is
\* 'pending', and a task is 'running' only while its own call is under way.
C28_TaskRecorded ==
    emulator.pc = "ready" =>
        /\ \A i \in 1..Len(emulator.log) :
              LET call == emulator.log[i]
              IN  /\ \A j \in 1..(i - 1) : emulator.log[j].task_id # call.task_id
                  /\ call.task_id \in DOMAIN emulator.tasks
                  /\ TaskOf(call).task_id = call.task_id
                  /\ call.returned =>
                        /\ TaskOf(call).completed_at > 0
                        /\ IF HandlerKind(call) \in {"returns", "chains"}
                           THEN /\ TaskOf(call).status = "completed"
                                /\ TaskOf(call).result # "None"
                           ELSE /\ TaskOf(call).status = "failed"
                                /\ TaskOf(call).error # "None"
        /\ \A task_id \in DOMAIN emulator.tasks :
              /\ emulator.tasks[task_id].status # "pending"
              /\ emulator.tasks[task_id].status = "running" => task_id \in UnderWay

\* three calls have returned in the same second: one whose handler raised,
\* one of a type without a handler, and one whose handler returned
C28_Witness ==
    /\ emulator.pc = "ready"
    /\ emulator.stack = <<>>
    /\ emulator.second = 0
    /\ \E i, j, k \in 1..Len(emulator.log) :
          /\ HandlerKind(emulator.log[i]) = "raises"
          /\ TaskOf(emulator.log[i]).status = "failed"
          /\ HandlerKind(emulator.log[j]) = "none"
          /\ TaskOf(emulator.log[j]).status = "failed"
          /\ HandlerKind(emulator.log[k]) = "returns"
          /\ TaskOf(emulator.log[k]).status = "completed"

\* C29: in the emulator the application starts with, once a
\* diagnosis_analysis call has returned, the next two calls are one
\* specialist_matching and one notification call, all three tasks are
\* completed, and they completed in the order notification, matching,
\* diagnosis.
C29_HandlerChain ==
    (emulator.pc = "ready" /\ emulator.mode = "app") =>
        \A i \in 1..Len(emulator.log) :
            (emulator.log[i].task_type = "diagnosis_analysis" /\ emulator.log[i].returned) =>
                /\ i + 2 <= Len(emulator.log)
                /\ emulator.log[i + 1].task_type = "specialist_matching"
                /\ emulator.log[i + 2].task_type = "notification"
                /\ \A k \in i..(i + 2) : TaskOf(emulator.log[k]).status = "completed"
                /\ TaskOf(emulator.log[i + 2]).completed_at
                      < TaskOf(emulator.log[i + 1]).completed_at
                /\ TaskOf(emulator.log[i + 1]).completed_at
                      < TaskOf(emulator.log[i]).completed_at

----------------------------------------------------------------------------
(* HTTPClient.request.  The method body makes one attempt; the tenacity    *)
(* decorator around it calls the body again after an exception until       *)
(* stop_after_attempt says stop, then re-raises the last exception.        *)

MaxRetryAttempts == 4

\* the default of the constructor argument
DefaultRetryAttempts == 3

\* the argument of stop_after_attempt in the decorator
StopAfterAttempt == 3

\* what self.client.request can do in one attempt
AttemptOutcomes == {"success", "timeout", "transport", "status404", "status500"}

\* the exception one attempt of the body ends with, "None" when it returns
AttemptError(outcome) ==
    IF outcome = "success" THEN "None"
    ELSE IF outcome = "timeout" THEN "APIError: Request timeout"
    ELSE IF outcome = "transport" THEN "APIError: Request failed"
    ELSE IF outcome = "status404" THEN "APIError: HTTP 404"
    ELSE "APIError: HTTP 500"

\* HTTPClient(retry_attempts=n), or HTTPClient() with the default
HTTPClients ==
    [pc : {"calling"}, retry_attempts : 1..MaxRetryAttempts, given : {TRUE},
     attempts : {<<>>}, error : {"None"}]
    \cup
    [pc : {"calling"}, retry_attempts : {DefaultRetryAttempts}, given : {FALSE},
     attempts : {<<>>}, error : {"None"}]

InitHttp ==
    /\ IdleAggregator
    /\ ranker = NoCall
    /\ matcher = NoCall
    /\ scorer = NoCall
    /\ adapter = NoCall
    /\ emulator = NoCall
    /\ http \in HTTPClients

\* one attempt of the body, then the decorator's decision: return the
\* response, call the body again, or re-raise
Request(outcome) ==
    /\ http.pc = "calling"
    /\ LET attempts == Append(http.attempts, outcome)
       IN  http' = [http EXCEPT
                      !.attempts = attempts,
                      !.error = AttemptError(outcome),
                      !.pc = IF outcome = "success" THEN "returned"
                             ELSE IF Len(attempts) >= StopAfterAttempt THEN "raised"
                             ELSE "calling"]
    /\ UNCHANGED <<session, pc, req, units, envelope, served, ranker, matcher,
                   scorer, adapter, emulator>>

NextHttp == \E outcome \in AttemptOutcomes : Request(outcome)

SpecHttp == InitHttp /\ [][NextHttp]_vars

\* C30: a call that returned made its only successful attempt last, and a
\* call that raised made exactly retry_attempts attempts, all failed, and
\* raised the APIError of the last one.
C30_RetryAttempts ==
    /\ http.pc = "returned" =>
          /\ http.attempts[Len(http.attempts)] = "success"
          /\ \A i \in 1..(Len(http.attempts) - 1) : http.attempts[i] # "success"
    /\ http.pc = "raised" =>
          /\ Len(http.attempts) = http.retry_attempts
          /\ \A i \in 1..Len(http.attempts) : http.attempts[i] # "success"
          /\ http.error = AttemptError(http.attempts[Len(http.attempts)])

====
